---- MODULE Spec2Model ----
(***************************************************************************)
(* A model of worker.py: the Worker retry loop (visit / visit_point), the  *)
(* identity rotation (swap_account, remove_account, bench_account,         *)
(* new_account), kill, swap_circuit, and the BusyLock gate.                *)
(*                                                                         *)
(* Every Worker coroutine runs on one asyncio event loop, so the code      *)
(* between two awaits that really suspend is one atomic step.  Each action *)
(* below is one such step: it runs the handler from the point where the    *)
(* coroutine resumes up to the next suspension (a network call, a sleep).  *)
(* The steps are written as functions on the whole state (a record), so a  *)
(* call chain such as visit -> bench_account -> new_account ->             *)
(* initialize_api composes into one step exactly as in the code.           *)
(***************************************************************************)
EXTENDS Integers, Sequences, FiniteSets, Bags, TLC

\* ------------------------------------------------------------------ bounds
Workers == {"w1", "w2"}
NumAccounts == 3
Accounts == 1..NumAccounts
MaxVisits == 1
MaxFaults == 1
RetryVisits == 2
RetryFaults == 4
DeadVisits == 3
DeadFaults == 1
PROXIES == {"p1", "p2"}
Tasks == {"t1", "t2", "t3"}
MaxOps == 5
TickStep == 91
CircuitVisits == 2
CircuitStart == 20
MaxAge == 182

MaxStamp == 1
MaxFed == 3
SwapVisits == 3

\* ------------------------------------------------------- program constants
BannedStatus == 3
TutorialSteps == {0, 1, 3, 4, 7}
MaxAttempts == 4
EmptyLimit == 2
CircuitLimit == 20
RotateAfter == 180
MaxTth == 90000
MsPerSecond == 1000

\* The failures the retry loop of visit classifies (its except clauses);
\* "other" is any exception that reaches `except Exception`.
Recoverable == {"ip", "busy", "throttle", "malformed"}
SessionLevel == {"auth", "notlogged"}
Failures == Recoverable \cup SessionLevel \cup {"banned", "captcha", "other"}

\* What a map fetch with no exception can show: a non-success status, or
\* status 1 with (sightings, enabled forts) each zero or positive.
Responses == {"status", "dead", "forts", "sight"}

VARIABLES
    \* ---- program state, Worker and its class-level shared state
    account,            \* self.account / self.username, per Worker
    extra_queue,        \* the pool of available identities (FIFO)
    captcha_queue,      \* the benched queue
    outside,            \* identities not yet handed to the pool
    accounts,           \* Worker.accounts: the shared record of each identity
    logged_in,
    ever_authenticated,
    has_provider,       \* self.api._auth_provider is set
    empty_visits,
    killed,
    error_code,
    proxy,
    g_captchas,         \* Worker.g['captchas']
    control_socks,      \* config.CONTROL_SOCKS is set
    CIRCUIT_FAILURES,
    pc,                 \* where each Worker's visit coroutine is suspended
    cont,               \* what follows the swap the coroutine is suspended in
    attempts,           \* the loop variable of visit
    visited,            \* the value the last visit returned
    \* ---- observations of the run (read by no step)
    budget,             \* visit calls the model still allows
    faults,             \* failures the model still lets the remote raise
    vpCalls,            \* visit_point calls in the current visit
    onlyBusy,           \* every attempt of the current visit failed "busy"
    cause,              \* the last failure the current visit classified
    startAcc,           \* the identity held when the current visit began
    startLogged,        \* logged_in when the current visit began
    deadRun,            \* consecutive dead-zone visits 
    runSwaps,           \* swap_account calls made by those visits
    circuitLog,         \* what swap_circuit logged in the current attempt
    startEmpty,         \* empty_visits when the current visit began
    swapped,            \* swap_account was called in the current visit
    resp,               \* the map response the current visit processed
    account_start,      \* self.account_start: None, set in this tenure of
                        \* the identity, or stale (set in an earlier one)
    sims,               \* session simulations completed in this tenure
    time_passed,        \* monotonic() - CIRCUIT_TIME[p], for each path p
    own,                \* more of the Worker's own: location, last_request,
                        \* last_action, last_gmo, inventory_timestamp,
                        \* items, visits, total_seen, account_seen; what
                        \* self.api was last given as its proxies
                        \* (api_proxy); where a call of
                        \* swap_account(lock=True) on it is (lpc)
    persist,            \* the Worker's copy of the identity state against
                        \* the pool record: saved, unsaved, or lost (the
                        \* identity left the Worker unsaved)
    \* ---- the BusyLock of one Worker and the tasks that use it
    locked,             \* Lock._locked
    waiters,            \* Lock._waiters: the futures, by the task that waits
    fut,                \* each task's future: none, pending, done, cancelled
    tpc,                \* idle, waiting (suspended in acquire), holding
    mustCancel,         \* the task was cancelled after its future was set
    lastOp,             \* the last gate operation and what it returned
    ops,                \* gate operations so far
    took,               \* how the gate's holder, present or last, got it
    \* ---- the requests of one Worker, in the order its coroutines send them
    script,             \* the requests the running coroutine has yet to send
    rpcPc,              \* idle, or call (suspended in run_in_executor)
    inflight,           \* the request in flight: its operation, and whether
                        \* it was submitted through call_chain
    response,           \* the response the last request returned
    outcome,            \* how the last request ended, for its caller
    inventory_timestamp,\* self.inventory_timestamp (0 for None)
    download_hash,      \* self.download_hash (0 for None)
    applied,            \* the last request's return set self.last_request
    \* ---- the sightings of map responses and where they go
    SIGHTING_CACHE,     \* db.SIGHTING_CACHE: the confirmed sightings
    MYSTERY_CACHE,      \* db.MYSTERY_CACHE: the speculative sightings
    handed,             \* the entities given to db_processor.add, in order
    fed,                \* the last sighting as it came: the raw sighting,
                        \* the request time, the estimator's answer, where
                        \* the Worker is with it, whether it was new, as
                        \* what visit_point normalized it, and whether
                        \* spawns.get_despawn_time was called for it
    feeds,              \* the sightings processed so far
    clock               \* what time() returns and a session writes; 0 where
                        \* a specification follows neither these values, nor
                        \* the counts of visits and sightings, nor what the
                        \* client is given

wvars == <<account, extra_queue, captcha_queue, outside, accounts, logged_in,
           ever_authenticated, has_provider, empty_visits, killed, error_code,
           proxy, g_captchas, control_socks, CIRCUIT_FAILURES, pc, cont,
           attempts, visited, budget, faults, vpCalls, onlyBusy, cause, startAcc, startLogged,
           deadRun, runSwaps, circuitLog, startEmpty, swapped, resp,
           account_start, sims, persist, time_passed, own>>
gvars == <<locked, waiters, fut, tpc, mustCancel, lastOp, ops, took>>
rvars == <<script, rpcPc, inflight, response, outcome, inventory_timestamp,
           download_hash, applied>>
pvars == <<SIGHTING_CACHE, MYSTERY_CACHE, handed, fed, feeds, clock>>
vars == <<wvars, gvars, rvars, pvars>>

Range(q) == {q[i] : i \in 1..Len(q)}

\* The current state as one record, and the step that installs a record.
st == [account |-> account, extra_queue |-> extra_queue,
       captcha_queue |-> captcha_queue, outside |-> outside,
       accounts |-> accounts,
       logged_in |-> logged_in, ever_authenticated |-> ever_authenticated,
       has_provider |-> has_provider, empty_visits |-> empty_visits,
       killed |-> killed, error_code |-> error_code, proxy |-> proxy,
       g_captchas |-> g_captchas, control_socks |-> control_socks,
       CIRCUIT_FAILURES |-> CIRCUIT_FAILURES, pc |-> pc, cont |-> cont,
       attempts |-> attempts, visited |-> visited, budget |-> budget,
       faults |-> faults,
       vpCalls |-> vpCalls, onlyBusy |-> onlyBusy, cause |-> cause,
       startAcc |-> startAcc, startLogged |-> startLogged,
       deadRun |-> deadRun, runSwaps |-> runSwaps,
       circuitLog |-> circuitLog, startEmpty |-> startEmpty,
       swapped |-> swapped, resp |-> resp,
       account_start |-> account_start, sims |-> sims, persist |-> persist,
       time_passed |-> time_passed, own |-> own]

Install(s) ==
    /\ account' = s.account
    /\ extra_queue' = s.extra_queue
    /\ captcha_queue' = s.captcha_queue
    /\ outside' = s.outside
    /\ accounts' = s.accounts
    /\ logged_in' = s.logged_in
    /\ ever_authenticated' = s.ever_authenticated
    /\ has_provider' = s.has_provider
    /\ empty_visits' = s.empty_visits
    /\ killed' = s.killed
    /\ error_code' = s.error_code
    /\ proxy' = s.proxy
    /\ g_captchas' = s.g_captchas
    /\ control_socks' = s.control_socks
    /\ CIRCUIT_FAILURES' = s.CIRCUIT_FAILURES
    /\ pc' = s.pc
    /\ cont' = s.cont
    /\ attempts' = s.attempts
    /\ visited' = s.visited
    /\ budget' = s.budget
    /\ faults' = s.faults
    /\ vpCalls' = s.vpCalls
    /\ onlyBusy' = s.onlyBusy
    /\ cause' = s.cause
    /\ startAcc' = s.startAcc
    /\ startLogged' = s.startLogged
    /\ deadRun' = s.deadRun
    /\ runSwaps' = s.runSwaps
    /\ circuitLog' = s.circuitLog
    /\ startEmpty' = s.startEmpty
    /\ swapped' = s.swapped
    /\ resp' = s.resp
    /\ account_start' = s.account_start
    /\ sims' = s.sims
    /\ persist' = s.persist
    /\ time_passed' = s.time_passed
    /\ own' = s.own

\* ------------------------------------------------------- identity records

\* The record of an identity no Worker has written yet: account.get falls
\* back on (0, 0, 0), 0, None and {} (all 0 here).
NewRecord ==
    [captcha |-> FALSE, banned |-> FALSE, refresh |-> FALSE,
     location |-> 0, time |-> 0, inventory_timestamp |-> 0, items |-> 0]

\* Mutant: the last action and the last map fetch start afresh.
LoadedAfresh(o, rec) ==
    [o EXCEPT !.location = rec.location, !.last_request = rec.time,
              !.last_action = 0, !.last_gmo = 0,
              !.inventory_timestamp = rec.inventory_timestamp,
              !.items = rec.items]

\* What __init__ (lines 56-61) and new_account (lines 796-801) read from
\* the record of the identity just taken.
Loaded(o, rec) ==
    [o EXCEPT !.location = rec.location, !.last_request = rec.time,
              !.last_action = rec.time, !.last_gmo = rec.time,
              !.inventory_timestamp = rec.inventory_timestamp,
              !.items = rec.items]

\* update_accounts_dict: the record of the identity the Worker holds is
\* rewritten, flags included (both default to False), and is the same object
\* the queues hold.
UpdateAccountsDict(s, w, captcha, banned) ==
    LET o == s.own[w] IN
    [s EXCEPT !.accounts[s.account[w]] =
        [captcha |-> captcha, banned |-> banned,
         refresh |-> IF s.has_provider[w] THEN TRUE ELSE @.refresh,
         location |-> o.location, time |-> o.last_request,
         inventory_timestamp |-> o.inventory_timestamp,
         items |-> o.items],
              !.persist[w] = IF @ = "lost" THEN "lost" ELSE "saved"]

\* None, as the proxy argument of set_proxy and as an entry of the mapping
\* given to the client; a client that was given no mapping is "unset".
NoProxy == "None"

\* The Worker's own as __init__ leaves it before anything is read from the
\* identity's record: the counts are 0 (lines 72-75), the client was given
\* no proxy, no locked swap is under way.
NewOwn ==
    [location |-> 0, last_request |-> 0, last_action |-> 0, last_gmo |-> 0,
     inventory_timestamp |-> 0, items |-> 0, visits |-> 0, total_seen |-> 0,
     account_seen |-> 0, api_proxy |-> NoProxy, lpc |-> "none"]

\* The Worker's own becomes o, by a stamp of time() or by a count or by
\* what the client is given.  A specification whose clock stands at 0
\* follows none of these: there the stamps are the 0 the fields hold
\* already, and the counts and the client's setting stay as they began.
Own(s, w, o) == IF clock = 0 THEN s ELSE [s EXCEPT !.own[w] = o]

\* The client is given the setting v.
ApiSetProxy(s, w, v) == Own(s, w, [s.own[w] EXCEPT !.api_proxy = v])

\* set_proxy(proxy): a proxy given becomes the Worker's; a Worker that has
\* one hands the client a mapping built from the argument.
SetProxy(s, w, p) ==
    LET s1 == IF p # NoProxy THEN [s EXCEPT !.proxy[w] = p] ELSE s
    IN  IF s1.proxy[w] # NoProxy THEN ApiSetProxy(s1, w, p) ELSE s1

\* initialize_api: per-identity state is reset and a new client is built,
\* with set_proxy() called without argument; the Worker starts logged in
\* only if the record carries a refresh token and check_access_token() says
\* the stored access token is still valid (tok: the outcome of that check).
InitializeApi(s0, w, tok) ==
    LET ok == s0.accounts[s0.account[w]].refresh /\ tok
        s == SetProxy(ApiSetProxy(s0, w, "unset"), w, NoProxy)
    IN  [s EXCEPT !.logged_in[w] = ok,
                  !.ever_authenticated[w] = ok,
                  !.sims[w] = 0,
                  !.own[w].account_seen = 0,
                  !.account_start[w] = IF @ = "None" THEN "None" ELSE "stale",
                  !.empty_visits[w] = 0,
                  !.has_provider[w] = s.accounts[s.account[w]].refresh]

\* ------------------------------------------------------------ swap_circuit

\* Mutant: the circuit is renewed however recently it was renewed before.
RecentlyRenewedNever(t) == FALSE

\* The rate limit of swap_circuit (line 119).
RecentlyRenewed(t) == t <= RotateAfter

\* swap_circuit: without control sockets the Worker picks a proxy at random
\* (np); with them the circuit is renewed only if more than 180 s have
\* passed since the path's last renewal (CIRCUIT_TIME, set at startup and
\* at each renewal), and the renewal resets the path's failure counter.
SwapCircuit(s, w, np) ==
    IF ~s.control_socks
    THEN [SetProxy(s, w, np) EXCEPT !.circuitLog[w] = "swapped"]
    ELSE IF RecentlyRenewed(s.time_passed[s.proxy[w]])
         THEN [s EXCEPT !.circuitLog[w] = "skipped"]
         ELSE [s EXCEPT !.time_passed[s.proxy[w]] = 0,
                        !.CIRCUIT_FAILURES[s.proxy[w]] = 0,
                        !.circuitLog[w] = "changed"]

\* Mutant: the swap comes one empty visit early.
PastLimitEarly(n) == n >= EmptyLimit

\* `self.empty_visits > 2`, lines 525 and 611.
PastLimit(n) == n > EmptyLimit

\* ------------------------------------------------- the end of a visit call

ReturnFalse(s, w) ==
    [s EXCEPT !.pc[w] = "done", !.visited[w] = FALSE,
              !.deadRun[w] = 0, !.runSwaps[w] = 0]

\* Mutant: the accounting of a visit with sightings leaves the empty-visit
\* counter alone.
SightingsKeepCounter(s, w) == [s EXCEPT !.error_code[w] = ":"]

\* visit_point lines 597-603 for the Worker's own state: sightings reset
\* the empty-visit counter.
SightingsSeen(s, w) ==
    Own([s EXCEPT !.error_code[w] = ":", !.empty_visits[w] = 0], w,
        [s.own[w] EXCEPT !.total_seen = @ + 1])

\* visit_point lines 621-632: the visit is counted, the identity persisted,
\* and visit_point (hence visit) returns True.
VpReturn(s, w) ==
    LET s1 == UpdateAccountsDict(
                  Own(s, w, [s.own[w] EXCEPT !.visits = @ + 1]),
                  w, FALSE, FALSE)
    IN  [s1 EXCEPT !.pc[w] = "done", !.visited[w] = TRUE]

\* visit_point lines 614-619: a visit without sightings counts against the
\* egress path, and past the limit asks for a new circuit.
VpCircuit(s, w, e) ==
    IF s.control_socks
    THEN LET p  == s.proxy[w]
             s1 == [s EXCEPT !.CIRCUIT_FAILURES[p] = @ + 1]
         IN  IF s1.CIRCUIT_FAILURES[p] > CircuitLimit
             THEN VpReturn(SwapCircuit(s1, w, e.np), w)
             ELSE VpReturn(s1, w)
    ELSE VpReturn(s, w)

\* ------------------------------------------------------ identity rotation
\* k names what the caller does once the swap returns: "fail" (visit returns
\* False), "captcha" (count the captcha, return False), "dead" (line 611 of
\* visit_point), "empty" (line 614 of visit_point).

RECURSIVE NewLoop(_, _, _, _), SwapLoop(_, _, _, _), SwapAccount(_, _, _, _),
          AfterSwap(_, _, _, _)

\* new_account from its loop: wait while the pool is empty (a killed Worker
\* gives up), then take the head of the pool and reset per-identity state.
NewLoop(s, w, k, e) ==
    IF s.extra_queue = << >>
    THEN IF s.killed[w]
         THEN AfterSwap(s, w, k, e)
         ELSE [s EXCEPT !.pc[w] = "new_account_sleep", !.cont[w] = k]
    ELSE LET s1 == [s EXCEPT !.account[w] = Head(s.extra_queue),
                             !.extra_queue = Tail(s.extra_queue),
                             !.persist[w] = IF @ = "saved" THEN "saved"
                                            ELSE "lost"]
             s2 == InitializeApi(
                       [s1 EXCEPT !.own[w] =
                            Loaded(@, s1.accounts[s1.account[w]])],
                       w, e.tok)
         IN  AfterSwap([s2 EXCEPT !.error_code[w] = "None"], w, k, e)

\* Mutant: swap_account does not wait for the pool to hold another identity.
SwapLoopNoWait(s, w, k, e) ==
    NewLoop([s EXCEPT !.extra_queue = Append(@, s.account[w])], w, k, e)

\* swap_account from its loop: wait while the pool is empty (a killed Worker
\* gives up), then put the identity back and take another.
SwapLoop(s, w, k, e) ==
    IF s.extra_queue = << >>
    THEN IF s.killed[w]
         THEN AfterSwap(s, w, k, e)
         ELSE [s EXCEPT !.pc[w] = "swap_account_sleep", !.cont[w] = k]
    ELSE NewLoop([s EXCEPT !.extra_queue = Append(@, s.account[w])], w, k, e)

SwapAccount(s, w, k, e) ==
    LET s1 == [s EXCEPT !.error_code[w] = "SWAPPING",
                        !.swapped[w] = TRUE,
                        !.runSwaps[w] = IF k \in {"dead", "empty"}
                                           /\ s.deadRun[w] > 0
                                        THEN @ + 1 ELSE @]
    IN  SwapLoop(UpdateAccountsDict(s1, w, FALSE, FALSE), w, k, e)

AfterSwap(s0, w, k, e) ==
    LET s == [s0 EXCEPT !.cont[w] = "fail"]
    IN
    CASE k = "fail" -> ReturnFalse(s, w)
      [] k = "captcha" -> ReturnFalse([s EXCEPT !.g_captchas = @ + 1], w)
      [] k = "dead" -> IF PastLimit(s.empty_visits[w])
                       THEN SwapAccount(s, w, "empty", e)
                       ELSE VpCircuit(s, w, e)
      [] k = "empty" -> VpCircuit(s, w, e)

\* Mutant: the banned identity is handed back to the pool, as a swap would.
RemoveAccountRequeues(s, w, e) ==
    LET s1 == UpdateAccountsDict([s EXCEPT !.error_code[w] = "REMOVING"],
                                 w, FALSE, TRUE)
    IN  NewLoop([s1 EXCEPT !.extra_queue = Append(@, s.account[w])],
                w, "fail", e)

RemoveAccount(s, w, e) ==
    LET s1 == [s EXCEPT !.error_code[w] = "REMOVING"]
    IN  NewLoop(UpdateAccountsDict(s1, w, FALSE, TRUE), w, "fail", e)

\* Mutant: the challenged identity is flagged but never benched.
BenchAccountNoQueue(s, w, e) ==
    LET s1 == [s EXCEPT !.error_code[w] = "BENCHING"]
    IN  NewLoop(UpdateAccountsDict(s1, w, TRUE, FALSE), w, "captcha", e)

BenchAccount(s, w, e) ==
    LET s1 == [s EXCEPT !.error_code[w] = "BENCHING"]
        s2 == UpdateAccountsDict(s1, w, TRUE, FALSE)
        s3 == [s2 EXCEPT !.captcha_queue = Append(@, s.account[w])]
    IN  NewLoop(s3, w, "captcha", e)

\* ------------------------------------------------------ the retry loop

\* Mutant: a recoverable failure ends the call instead of being retried.
BackoffReturns(s, w) == ReturnFalse(s, w)

\* random_sleep in a handler that falls through to the next pass.
Backoff(s, w) == [s EXCEPT !.pc[w] = "backoff"]

\* Mutant: the catch-all handler swaps the identity like the session
\* handlers above it.
OnOtherSwaps(s, w, e) ==
    SwapAccount([s EXCEPT !.error_code[w] = "EXCEPTION"], w, "fail", e)

\* `except Exception`, lines 475-478.
OnOther(s, w, e) ==
    ReturnFalse([s EXCEPT !.error_code[w] = "EXCEPTION"], w)

\* Mutant: a handler starts its recovery without setting the status.
SetStatusSkipped(s, w, c) == s

\* `self.error_code = ...`, the first assignment of each handler.
SetStatus(s, w, c) == [s EXCEPT !.error_code[w] = c]

\* The except clauses of visit, lines 435-478.
Handle(s0, w, f, e) ==
    LET s == [s0 EXCEPT !.cause[w] = f, !.onlyBusy[w] = @ /\ f = "busy",
                        !.faults = @ - 1]
        code(c) == SetStatus(s, w, c)
    IN  CASE f = "ip" ->
               Backoff(SwapCircuit(code("IP BANNED"), w, e.np), w)
          [] f = "auth" -> SwapAccount(code("FAILED LOGIN"), w, "fail", e)
          [] f = "notlogged" ->
               SwapAccount(code("NOT AUTHENTICATED"), w, "fail", e)
          [] f = "busy" -> Backoff(code("RETRYING"), w)
          [] f = "throttle" -> Backoff(code("THROTTLE"), w)
          [] f = "banned" -> RemoveAccount(code("BANNED?"), w, e)
          [] f = "captcha" -> BenchAccount(code("CAPTCHA"), w, e)
          [] f = "malformed" -> Backoff(code("MALFORMED RESPONSE"), w)
          [] f = "other" -> OnOther(s, w, e)

\* The Worker's copy of the identity state changes: self.location (line
\* 492), or last_request and the inventory in call_chain (lines 381-393).
Unsaved(p) == IF p = "lost" THEN "lost" ELSE "unsaved"

\* visit_point up to its map fetch, lines 483-511: suspended in call_chain.
VpStart(s, w) ==
    Own([s EXCEPT !.error_code[w] = "!", !.vpCalls[w] = @ + 1,
                  !.pc[w] = "gmo", !.persist[w] = Unsaved(@)], w,
        [s.own[w] EXCEPT !.location = clock])

\* Mutant: a dead zone only sets the status; the swap waits for the
\* empty-visit threshold.
DeadZoneNoSwap(s, w, e) ==
    AfterSwap([s EXCEPT !.error_code[w] = "NOTHING SEEN"], w, "dead", e)

\* Mutant: a dead zone counts as an empty visit and nothing more.
DeadZoneCountsOnly(s, w, e) ==
    VpCircuit([s EXCEPT !.error_code[w] = "NOTHING SEEN"], w, e)

\* visit_point lines 606-608: nothing seen at all.
DeadZone(s, w, e) ==
    SwapAccount([s EXCEPT !.error_code[w] = "NOTHING SEEN"], w, "dead", e)

\* visit_point from the response on, lines 512-632.
VpResponse(s0, w, r, e) ==
    LET s == Own([s0 EXCEPT !.resp[w] = r], w,
                 [s0.own[w] EXCEPT !.last_request = clock,
                                   !.last_gmo = clock,
                                   !.inventory_timestamp = clock,
                                   !.items = clock])
        bump == [s EXCEPT !.empty_visits[w] = @ + 1]
        norun(x) == [x EXCEPT !.deadRun[w] = 0, !.runSwaps[w] = 0]
    IN  CASE r = "status" ->
               LET s1 == [bump EXCEPT !.error_code[w] = "UNKNOWNRESPONSE"]
               IN  IF PastLimit(s1.empty_visits[w])
                   THEN SwapAccount(s1, w, "fail", e)
                   ELSE ReturnFalse(s1, w)
          [] r = "sight" ->
               LET s1 == SightingsSeen(
                             Own(s, w, [s.own[w] EXCEPT
                                            !.account_seen = @ + 1]), w)
                   s2 == IF s.control_socks
                         THEN [s1 EXCEPT !.CIRCUIT_FAILURES[s.proxy[w]] = 0]
                         ELSE s1
               IN  VpReturn(norun(s2), w)
          [] r = "forts" ->
               LET s1 == norun([bump EXCEPT !.error_code[w] = ","])
               IN  IF PastLimit(s1.empty_visits[w])
                   THEN SwapAccount(s1, w, "empty", e)
                   ELSE VpCircuit(s1, w, e)
          [] r = "dead" ->
               DeadZone([bump EXCEPT !.deadRun[w] = @ + 1], w, e)

\* What the environment decides within one step: whether the stored access
\* token of a new identity is still valid, and the proxy random.choice
\* picks.
Env == [tok : BOOLEAN, np : PROXIES]

\* The choices that can matter to the step that handles failure f, and to
\* a step that may only swap identities.
EnvSwap == [tok : BOOLEAN, np : {"p1"}]
EnvCircuit ==
    IF control_socks THEN [tok : {FALSE}, np : {"p1"}]
    ELSE [tok : {FALSE}, np : PROXIES]
EnvNone == [tok : {FALSE}, np : {"p1"}]
EnvOf(f) ==
    CASE f = "ip" -> EnvCircuit
      [] f \in SessionLevel \cup {"banned", "captcha"} -> EnvSwap
      [] OTHER -> EnvNone

RespEnv(w, r) == IF r = "sight" THEN EnvNone ELSE EnvSwap
WakeEnv(w) == EnvSwap

\* --------------------------------------------------------------- actions

\* One pass of the loop body of visit up to its first suspension: login if
\* the Worker is not logged in (suspended at set_authentication), else
\* visit_point (suspended at its map fetch).
BeginAttempt(s0, w) ==
    LET s == [s0 EXCEPT !.circuitLog[w] = "none", !.cause[w] = "none"]
    IN  IF s.logged_in[w]
        THEN VpStart(s, w)
        ELSE [s EXCEPT !.error_code[w] = "LOGIN", !.pc[w] = "login"]

\* The caller starts visit(point) on a Worker that is not killed
\* (fast_speed offers no killed Worker); the coroutine runs to its first
\* suspension.
StartVisit(w) ==
    /\ pc[w] \in {"idle", "done"}
    /\ ~killed[w]
    /\ budget > 0
    /\ Install(BeginAttempt([st EXCEPT !.attempts[w] = 0,
                                       !.budget = @ - 1,
                                       !.vpCalls[w] = 0,
                                       !.onlyBusy[w] = TRUE,
                                       !.startAcc[w] = account[w],
                                       !.startLogged[w] = logged_in[w],
                                       !.startEmpty[w] = empty_visits[w],
                                       !.swapped[w] = FALSE,
                                       !.resp[w] = "none"], w))
    /\ UNCHANGED <<gvars, rvars, pvars>>

\* login, lines 138-154: set_authentication returns or raises; a killed
\* Worker returns False (visit sleeps 2 s and goes on to the next attempt);
\* otherwise the first-time session simulation starts.
LoginAuth(w) ==
    /\ pc[w] = "login"
    /\ \/ /\ faults > 0
          /\ \E f \in Failures : \E e \in EnvOf(f) :
                Install(Handle(st, w, f, e))
       \/ /\ killed[w]
          /\ Install(Backoff([st EXCEPT !.cause[w] = "nologin",
                                        !.onlyBusy[w] = FALSE,
                                        !.has_provider[w] = TRUE], w))
       \/ /\ ~killed[w]
          /\ Install([st EXCEPT !.has_provider[w] = TRUE,
                                !.error_code[w] = "APP SIMULATION",
                                !.pc[w] = "simulate"])
    /\ UNCHANGED <<gvars, rvars, pvars>>

\* login, lines 156-160.
LoggedIn(s, w) ==
    [s EXCEPT !.ever_authenticated[w] = TRUE, !.logged_in[w] = TRUE,
              !.error_code[w] = "None", !.account_start[w] = "set"]

\* app_simulation_login ends (lines 162-250) or raises, having or not
\* having had a chained request answered before; on success login marks
\* the Worker authenticated and visit goes on into visit_point.
LoginSimulated(w) ==
    /\ pc[w] = "simulate"
    /\ \/ /\ faults > 0
          /\ \E f \in Failures : \E e \in EnvOf(f) : \E chained \in BOOLEAN :
                Install(Handle([st EXCEPT !.persist[w] =
                                    IF chained THEN Unsaved(@) ELSE @],
                               w, f, e))
       \/ Install(VpStart(LoggedIn(
              Own([st EXCEPT !.persist[w] = Unsaved(@), !.sims[w] = @ + 1],
                  w, [own[w] EXCEPT !.last_request = clock,
                                    !.last_action = clock,
                                    !.inventory_timestamp = clock,
                                    !.items = clock]), w), w))
    /\ UNCHANGED <<gvars, rvars, pvars>>

\* The map fetch of visit_point returns or raises.
MapFetched(w) ==
    /\ pc[w] = "gmo"
    /\ \/ /\ faults > 0
          /\ \E f \in Failures : \E e \in EnvOf(f) :
                Install(Handle(st, w, f, e))
       \/ \E r \in Responses : \E e \in RespEnv(w, r) :
              Install(VpResponse(st, w, r, e))
    /\ UNCHANGED <<gvars, rvars, pvars>>

\* The two callers of encounter within visit_point: notify (line 732), and
\* the sighting loop under ENCOUNTER == 'all' (line 563).
EncounterPcs == {"encounter_notify", "encounter_all"}

\* The map fetch returns sightings and the processing of one of them calls
\* encounter, which suspends in its call_chain (lines 694-703).
SightingFetched(w) ==
    /\ pc[w] = "gmo"
    /\ \E via \in EncounterPcs :
          Install([st EXCEPT !.resp[w] = "sight",
                             !.error_code[w] = "ENCOUNTERING",
                             !.pc[w] = via])
    /\ UNCHANGED <<gvars, rvars, pvars>>

\* The call_chain of encounter returns or raises.  The sighting loop wraps
\* its call in try / except Exception (lines 562-566) and goes on; notify
\* does not (lines 730-733), nor does visit_point around notify (line 555),
\* so there the exception reaches the except clauses of visit.
EncounterDone(w) ==
    /\ pc[w] \in EncounterPcs
    /\ \/ \E e \in EnvNone :
              Install(VpResponse([st EXCEPT !.error_code[w] = "!"],
                                 w, "sight", e))
       \/ /\ faults > 0
          /\ \E f \in Failures : \E e \in EnvOf(f) :
                IF pc[w] = "encounter_all"
                THEN Install(VpResponse([st EXCEPT !.faults = @ - 1],
                                        w, "sight", e))
                ELSE Install(Handle(st, w, f, e))
    /\ UNCHANGED <<gvars, rvars, pvars>>

\* Mutant: an off-by-one loop bound lets a fifth pass run.
LoopEndsLate(n) == n > MaxAttempts

\* `for attempts in range(0, 4)`: no pass follows the fourth.
LoopEnds(n) == n >= MaxAttempts

\* The sleep after a recoverable failure ends: the next pass of the loop,
\* or, after the fourth, `return False` (line 481).
BackoffEnd(w) ==
    /\ pc[w] = "backoff"
    /\ LET s == [st EXCEPT !.attempts[w] = @ + 1]
       IN  IF LoopEnds(s.attempts[w])
           THEN Install(ReturnFalse(s, w))
           ELSE Install(BeginAttempt(s, w))
    /\ UNCHANGED <<gvars, rvars, pvars>>

\* sleep(15) in swap_account ends: the loop condition is read again.
SwapWake(w) ==
    /\ pc[w] = "swap_account_sleep"
    /\ \E e \in WakeEnv(w) : Install(SwapLoop(st, w, cont[w], e))
    /\ UNCHANGED <<gvars, rvars, pvars>>

\* sleep(15) in new_account ends.
NewWake(w) ==
    /\ pc[w] = "new_account_sleep"
    /\ \E e \in WakeEnv(w) : Install(NewLoop(st, w, cont[w], e))
    /\ UNCHANGED <<gvars, rvars, pvars>>

\* The pool's put(), from outside the Workers: an identity nobody holds yet
\* is made available.
PoolPut ==
    /\ outside # {}
    /\ LET a == CHOOSE x \in outside : \A y \in outside : x <= y
       IN  Install([st EXCEPT !.extra_queue = Append(@, a),
                              !.outside = @ \ {a}])
    /\ UNCHANGED <<gvars, rvars, pvars>>

\* The paths some Worker connects through; with control sockets a Worker
\* keeps its path, and the age of a path no Worker uses is never read.
InUse == {proxy[w] : w \in Workers}

\* Time passes while every coroutine is suspended: the age of each circuit
\* in use grows (ages past MaxAge are not told apart).
Tick ==
    /\ control_socks
    /\ \E p \in InUse : time_passed[p] < MaxAge
    /\ Install([st EXCEPT !.time_passed =
                   [p \in PROXIES |->
                      IF p \notin InUse THEN @[p]
                      ELSE IF @[p] + TickStep < MaxAge THEN @[p] + TickStep
                      ELSE MaxAge]])
    /\ UNCHANGED <<gvars, rvars, pvars>>

\* kill(), called from outside while the Worker is suspended or idle.
Kill(w) ==
    /\ ~killed[w]
    /\ LET s == [st EXCEPT !.error_code[w] = "KILLED", !.killed[w] = TRUE]
       IN  IF ever_authenticated[w]
           THEN Install(UpdateAccountsDict(s, w, FALSE, FALSE))
           ELSE Install(s)
    /\ UNCHANGED <<gvars, rvars, pvars>>

\* ----------------------------------------------------------- call_chain

\* A request: its operation ("none" for an empty request), and whether the
\* code submits it through call_chain or bare through run_in_executor.
Rpc(op, chained) == [op |-> op, chained |-> chained]

\* Mutant: the requests are sent by request.call, past call_chain.
Unchained(op) == <<Rpc(op, FALSE)>>

\* `await self.call_chain(request)` for a request carrying op.
Chained(op) == <<Rpc(op, TRUE)>>
Empty == <<Rpc("none", FALSE)>>
When(c, seq) == IF c THEN seq ELSE << >>

\* complete_tutorial, lines 252-353, for a tutorial_state ts.  The
\* set_buddy_pokemon request of line 348 is built and never sent.
TutorialScript(ts) ==
    When(0 \notin ts, Chained("mark_tutorial_complete"))
    \o When(1 \notin ts,
            Chained("set_avatar") \o Chained("mark_tutorial_complete"))
    \o Chained("get_player_profile")
    \o When(3 \notin ts,
            Chained("get_download_urls") \o Empty
            \o Chained("encounter_tutorial_complete")
            \o Chained("get_player"))
    \o When(4 \notin ts,
            Chained("claim_codename") \o Chained("mark_tutorial_complete")
            \o Chained("get_player"))
    \o When(7 \notin ts, Chained("mark_tutorial_complete"))

\* The tutorial states tried: the steps completed in their order, up to
\* each step.
TutorialStates ==
    {{s \in TutorialSteps : s < t} : t \in TutorialSteps}
    \cup {TutorialSteps}

\* app_simulation_login lines 176-186: get_player, sent by request.call.
FirstGetPlayer == <<Rpc("get_player", FALSE)>>

\* app_simulation_login, lines 162-250: tut is config.COMPLETE_TUTORIAL, ts
\* the tutorial_state of the player, level whether a player level is known.
SimulationScript(tut, ts, level) ==
    Empty \o Empty \o FirstGetPlayer
    \o Chained("download_remote_config_version")
    \o Chained("get_asset_digest")
    \o (IF tut /\ ~(TutorialSteps \subseteq ts)
        THEN TutorialScript(ts)
        ELSE Chained("get_player_profile"))
    \o When(level, Chained("level_up_rewards"))
    \o Chained("register_background_device")

\* visit_point: the map fetch (line 505), then for what it shows an
\* encounter (line 703) and the two requests of spin_pokestop (lines
\* 647-658).
VisitScript(enc, spin) ==
    Chained("get_map_objects")
    \o When(enc, Chained("encounter"))
    \o When(spin, Chained("fort_details") \o Chained("fort_search"))

\* What a response can carry, as far as call_chain and the simulation read
\* it: the outer status code; whether `responses` is a mapping; the
\* CHECK_CHALLENGE payload (absent, null, or a mapping with or without a
\* challenge_url); new_timestamp_ms and the settings hash (0 when absent);
\* the banned flag of GET_PLAYER.
Urls == {"", " ", "http://c"}
Challenges ==
    {[payload |-> "absent", has_url |-> FALSE, url |-> " "],
     [payload |-> "null", has_url |-> FALSE, url |-> " "],
     [payload |-> "dict", has_url |-> FALSE, url |-> " "]}
    \cup [payload : {"dict"}, has_url : {TRUE}, url : Urls]
NoResponses ==
    [status_code |-> 1, well |-> FALSE,
     challenge |-> [payload |-> "absent", has_url |-> FALSE, url |-> " "],
     stamp |-> 0, hash |-> 0, banned |-> FALSE]
ChainResponses ==
    [status_code : {1, BannedStatus}, well : {TRUE}, challenge : Challenges,
     stamp : 0..MaxStamp, hash : 0..1, banned : BOOLEAN]
    \cup {NoResponses}

\* Mutant: an empty challenge_url counts as no challenge.
CheckCaptchaNonEmpty(url) == url # " " /\ url # ""

\* check_captcha, line 881: the comparison with the one-space placeholder.
CheckCaptchaRaises(url) == url # " "

\* check_captcha, line 880: the challenge_url of the CHECK_CHALLENGE
\* payload, a single space when the payload or the field is absent.
ChallengeUrl(ch) == IF ch.payload = "dict" /\ ch.has_url THEN ch.url ELSE " "

\* call_chain after the call returns, lines 381-397: how it ends and what
\* it keeps.  `a or b` keeps b when a is absent.
CallChainOutcome(r) ==
    IF r.status_code = BannedStatus THEN "banned"
    ELSE IF ~r.well \/ r.challenge.payload = "null" THEN "malformed"
    ELSE IF CheckCaptchaRaises(ChallengeUrl(r.challenge)) THEN "captcha"
    ELSE "ok"
Kept(new, old) == IF new # 0 THEN new ELSE old
CallChainReturns(r) ==
    /\ applied' = TRUE
    /\ outcome' = CallChainOutcome(r)
    /\ IF r.status_code # BannedStatus /\ r.well
       THEN /\ inventory_timestamp' = Kept(r.stamp, inventory_timestamp)
            /\ download_hash' = Kept(r.hash, download_hash)
       ELSE UNCHANGED <<inventory_timestamp, download_hash>>

\* A bare request returns, lines 166-193: nothing is kept; the simulation
\* reads the GET_PLAYER payload of its get_player and raises on its banned
\* flag (a `responses` that is no mapping raises AttributeError).
BareReturns(r) ==
    /\ applied' = FALSE
    /\ outcome' = IF inflight.op # "get_player" THEN "ok"
                  ELSE IF ~r.well THEN "other"
                  ELSE IF r.banned THEN "banned"
                  ELSE "ok"
    /\ UNCHANGED <<inventory_timestamp, download_hash>>

\* A coroutine that sends requests starts: the session simulation of a
\* login, or a visit.
StartScript ==
    /\ rpcPc = "idle" /\ script = << >>
    /\ \/ \E tut \in BOOLEAN, ts \in TutorialStates, level \in BOOLEAN :
             script' = SimulationScript(tut, ts, level)
       \/ \E enc \in BOOLEAN, spin \in BOOLEAN :
             script' = VisitScript(enc, spin)
    /\ outcome' = "none"
    /\ applied' = FALSE
    /\ response' = NoResponses
    /\ UNCHANGED <<rpcPc, inflight, inventory_timestamp, download_hash,
                   wvars, gvars, pvars>>

\* The next request of the coroutine is sent and the coroutine suspends.
SendRpc ==
    /\ rpcPc = "idle" /\ script # << >>
    /\ inflight' = Head(script)
    /\ script' = Tail(script)
    /\ rpcPc' = "call"
    /\ outcome' = "none"
    /\ applied' = FALSE
    /\ response' = NoResponses
    /\ UNCHANGED <<inventory_timestamp, download_hash, wvars, gvars,
                   pvars>>

\* The request returns; an exception ends the coroutine.
RpcReturns ==
    /\ rpcPc = "call"
    /\ \E r \in ChainResponses :
          /\ r.banned => inflight.op = "get_player"
          /\ response' = r
          /\ IF inflight.chained THEN CallChainReturns(r) ELSE BareReturns(r)
    /\ rpcPc' = "idle"
    /\ script' = IF outcome' = "ok" THEN script ELSE << >>
    /\ UNCHANGED <<inflight, wvars, gvars, pvars>>

\* ------------------------------------------------------------- BusyLock
\* BusyLock extends asyncio.Lock: acquire and release are the inherited
\* ones, acquire_now is the repository's own.  A task suspended in acquire
\* waits on a future kept in _waiters until the task resumes and removes it.

\* Mutant: the waiter queue is never consulted.
AllCancelledAlways == TRUE

AllCancelled == \A i \in 1..Len(waiters) : fut[waiters[i]] = "cancelled"

\* Mutant: acquire_now looks at the held flag only.
AcquireNowIgnoresWaiters == ~locked

\* The condition of acquire_now (line 902).
AcquireNowOk == ~locked /\ AllCancelled

Without(q, t) == SelectSeq(q, LAMBDA x : x # t)

\* acquire_now(): takes the lock at once or returns False.
AcquireNow(t) ==
    /\ tpc[t] = "idle"
    /\ ops < MaxOps
    /\ ops' = ops + 1
    /\ IF AcquireNowOk
       THEN /\ locked' = TRUE
            /\ tpc' = [tpc EXCEPT ![t] = "holding"]
            /\ took' = "acquire_now"
            /\ lastOp' = [op |-> "acquire_now", task |-> t, ok |-> TRUE]
       ELSE /\ lastOp' = [op |-> "acquire_now", task |-> t, ok |-> FALSE]
            /\ UNCHANGED <<locked, tpc, took>>
    /\ UNCHANGED <<waiters, fut, mustCancel, wvars, rvars, pvars>>

\* acquire(): takes a free lock nobody waits for, else queues a future and
\* suspends.
Acquire(t) ==
    /\ tpc[t] = "idle"
    /\ IF ~locked /\ AllCancelled
       THEN /\ locked' = TRUE
            /\ tpc' = [tpc EXCEPT ![t] = "holding"]
            /\ took' = "acquire"
            /\ UNCHANGED <<waiters, fut>>
       ELSE /\ waiters' = Append(waiters, t)
            /\ fut' = [fut EXCEPT ![t] = "pending"]
            /\ tpc' = [tpc EXCEPT ![t] = "waiting"]
            /\ UNCHANGED <<locked, took>>
    /\ lastOp' = [op |-> "acquire", task |-> t, ok |-> TRUE]
    /\ UNCHANGED <<mustCancel, ops, wvars, rvars, pvars>>

\* A task whose future release() has set resumes in acquire: it marks the
\* lock held and removes its future.
Resume(t) ==
    /\ tpc[t] = "waiting"
    /\ fut[t] = "done"
    /\ ~mustCancel[t]
    /\ locked' = TRUE
    /\ waiters' = Without(waiters, t)
    /\ fut' = [fut EXCEPT ![t] = "none"]
    /\ tpc' = [tpc EXCEPT ![t] = "holding"]
    /\ took' = "acquire"
    /\ lastOp' = [op |-> "resume", task |-> t, ok |-> TRUE]
    /\ UNCHANGED <<mustCancel, ops, wvars, rvars, pvars>>

\* release() by the holder: the lock is free and the first waiter whose
\* future is not done is woken.
Release(t) ==
    /\ tpc[t] = "holding"
    /\ locked' = FALSE
    /\ tpc' = [tpc EXCEPT ![t] = "idle"]
    /\ LET pending == {i \in 1..Len(waiters) : fut[waiters[i]] = "pending"}
       IN  IF pending = {}
           THEN UNCHANGED fut
           ELSE LET i == CHOOSE j \in pending : \A k \in pending : j <= k
                IN  fut' = [fut EXCEPT ![waiters[i]] = "done"]
    /\ lastOp' = [op |-> "release", task |-> t, ok |-> TRUE]
    /\ UNCHANGED <<waiters, mustCancel, ops, took, wvars, rvars, pvars>>

\* A task suspended in acquire is cancelled: its future is cancelled, or,
\* if release() has already set it, the task is marked to be cancelled when
\* it resumes.
Cancel(t) ==
    /\ tpc[t] = "waiting"
    /\ fut[t] \in {"pending", "done"}
    /\ ~mustCancel[t]
    /\ IF fut[t] = "pending"
       THEN fut' = [fut EXCEPT ![t] = "cancelled"] /\ UNCHANGED mustCancel
       ELSE mustCancel' = [mustCancel EXCEPT ![t] = TRUE] /\ UNCHANGED fut
    /\ lastOp' = [op |-> "cancel", task |-> t, ok |-> TRUE]
    /\ UNCHANGED <<locked, waiters, tpc, ops, took, wvars, rvars, pvars>>

\* The cancelled task resumes: acquire's finally removes the future and the
\* CancelledError leaves acquire.
ResumeCancelled(t) ==
    /\ tpc[t] = "waiting"
    /\ fut[t] = "cancelled" \/ mustCancel[t]
    /\ waiters' = Without(waiters, t)
    /\ fut' = [fut EXCEPT ![t] = "none"]
    /\ mustCancel' = [mustCancel EXCEPT ![t] = FALSE]
    /\ tpc' = [tpc EXCEPT ![t] = "idle"]
    /\ lastOp' = [op |-> "cancelled", task |-> t, ok |-> TRUE]
    /\ UNCHANGED <<locked, ops, took, wvars, rvars, pvars>>

\* ------------------------------------------------ swap_account(lock=True)
\* The gate modelled is the BusyLock of LockWorker; LockTask is the task
\* that calls swap_account(lock=True) on it, the other tasks use the gate
\* through its own operations.
LockWorker == "w1"
LockTask == "t1"

\* swap_account from its loop and on into new_account, which finds the
\* pool non-empty (the Worker's own identity was just put there): "sleep"
\* when suspended in sleep(15), "killed" when the loop returned False,
\* "released" when new_account ran to its release.
LockedLoop(s, w, e) ==
    IF s.extra_queue = << >>
    THEN IF s.killed[w]
         THEN [s EXCEPT !.own[w].lpc = "killed"]
         ELSE [s EXCEPT !.own[w].lpc = "sleep"]
    ELSE LET q  == Append(s.extra_queue, s.account[w])
             s1 == [s EXCEPT !.account[w] = Head(q),
                             !.extra_queue = Tail(q),
                             !.persist[w] = IF @ = "saved" THEN "saved"
                                            ELSE "lost"]
             s2 == InitializeApi(
                       [s1 EXCEPT !.own[w] =
                            Loaded(@, s1.accounts[s1.account[w]])],
                       w, e.tok)
         IN  [s2 EXCEPT !.error_code[w] = "None",
                        !.own[w].lpc = "released"]

\* The gate once LockTask has it and the call has run on to its next
\* suspension or to its end: q and f are the waiters and their futures
\* without LockTask's own; release() wakes the oldest pending waiter.
GateAfter(released, q, f) ==
    /\ waiters' = q
    /\ locked' = ~released
    /\ tpc' = [tpc EXCEPT ![LockTask] = IF released THEN "idle"
                                        ELSE "holding"]
    /\ LET pending == {i \in 1..Len(q) : f[q[i]] = "pending"}
       IN  IF released /\ pending # {}
           THEN LET i == CHOOSE j \in pending : \A k \in pending : j <= k
                IN  fut' = [f EXCEPT ![q[i]] = "done"]
           ELSE fut' = f
    /\ took' = "acquire"
    /\ lastOp' = [op |-> IF released THEN "release" ELSE "acquire",
                  task |-> LockTask, ok |-> TRUE]
    /\ UNCHANGED <<mustCancel, ops>>

\* swap_account(lock=True) is called: it runs to its first suspension, in
\* acquire if the gate is not to be had at once.
SwapLocked(w) ==
    /\ w = LockWorker
    /\ own[w].lpc \in {"none", "killed", "released"}
    /\ tpc[LockTask] = "idle"
    /\ LET s0 == [st EXCEPT !.error_code[w] = "SWAPPING"]
       IN  IF ~locked /\ AllCancelled
           THEN \E e \in EnvSwap :
                   LET s == LockedLoop(UpdateAccountsDict(s0, w, FALSE, FALSE),
                                       w, e)
                   IN  /\ Install(s)
                       /\ GateAfter(s.own[w].lpc = "released", waiters, fut)
           ELSE /\ Install([s0 EXCEPT !.own[w].lpc = "acquire"])
                /\ waiters' = Append(waiters, LockTask)
                /\ fut' = [fut EXCEPT ![LockTask] = "pending"]
                /\ tpc' = [tpc EXCEPT ![LockTask] = "waiting"]
                /\ lastOp' = [op |-> "acquire", task |-> LockTask, ok |-> TRUE]
                /\ UNCHANGED <<locked, mustCancel, ops, took>>
    /\ UNCHANGED <<rvars, pvars>>

\* release() has woken LockTask: acquire returns and swap_account goes on.
LockedResume(w) ==
    /\ w = LockWorker
    /\ own[w].lpc = "acquire"
    /\ tpc[LockTask] = "waiting" /\ fut[LockTask] = "done"
    /\ \E e \in EnvSwap :
          LET s == LockedLoop(UpdateAccountsDict(st, w, FALSE, FALSE), w, e)
          IN  /\ Install(s)
              /\ GateAfter(s.own[w].lpc = "released", Without(waiters, LockTask),
                           [fut EXCEPT ![LockTask] = "none"])
    /\ UNCHANGED <<rvars, pvars>>

\* sleep(15) in swap_account ends with the gate held.
LockedWake(w) ==
    /\ w = LockWorker
    /\ own[w].lpc = "sleep"
    /\ \E e \in EnvSwap :
          LET s == LockedLoop(st, w, e)
          IN  /\ Install(s)
              /\ GateAfter(s.own[w].lpc = "released", waiters, fut)
    /\ UNCHANGED <<rvars, pvars>>

\* ------------------------------------------------- sightings (visit_point)

\* What a map response can carry and the estimator can answer.  The values
\* of time_till_hidden_ms sit on both sides of both ends of the range; the
\* request time is half a second past a second, so that the division meets
\* a tie; the estimator answers None (0 here, as falsy) or a despawn time.
EncounterIds == {1, 2}
TthValues == {0 - 1, 0, MaxTth, MaxTth + 1}
RequestTimes == {10 * MsPerSecond + MsPerSecond \div 2}
DespawnTimes == {0, 20}
LureExpiries == {30 * MsPerSecond}
RawSightings == [encounter_id : EncounterIds, time_till_hidden_ms : TthValues]
RawForts == [encounter_id : EncounterIds,
             lure_expires_timestamp_ms : LureExpiries]

NoEntity == [type |-> "none"]
NotFed ==
    [kind |-> "none", at |-> "done", new |-> FALSE, normalized |-> NoEntity,
     consulted |-> FALSE]

\* round(n / d) of Python 3: to the nearest integer, a tie to the even one.
Round(n, d) ==
    LET q == n \div d
        r == n % d
    IN  IF 2 * r < d THEN q
        ELSE IF 2 * r > d THEN q + 1
        ELSE IF q % 2 = 0 THEN q ELSE q + 1

NormalizePokemon(raw, now) ==
    [type |-> "pokemon",
     encounter_id |-> raw.encounter_id,
     expire_timestamp |-> Round(now + raw.time_till_hidden_ms, MsPerSecond),
     spawn_id |-> raw.encounter_id,
     time_till_hidden_ms |-> raw.time_till_hidden_ms,
     valid |-> "unset"]

\* The lure's expiry is divided, not rounded; the expiries fed here are
\* whole seconds.
NormalizeLured(raw, now) ==
    [type |-> "pokemon",
     encounter_id |-> raw.encounter_id,
     expire_timestamp |-> raw.lure_expires_timestamp_ms \div MsPerSecond,
     spawn_id |-> 0 - 1,
     time_till_hidden_ms |-> raw.lure_expires_timestamp_ms - now,
     valid |-> "pokestop"]

InvalidTthNever(tth) == FALSE

InvalidTth(tth) == tth < 0 \/ tth > MaxTth

\* The sighting with its validity settled: d is what get_despawn_time
\* answers when it is asked.
Classify(raw, now, d) ==
    LET n == NormalizePokemon(raw, now)
    IN  IF InvalidTth(raw.time_till_hidden_ms)
        THEN IF d # 0
             THEN [n EXCEPT !.expire_timestamp = d,
                            !.time_till_hidden_ms = d * MsPerSecond - now,
                            !.valid = "fixed"]
             ELSE [n EXCEPT !.valid = "False"]
        ELSE [n EXCEPT !.valid = "True"]

\* The membership test of the two caches, and what add does with an entity:
\* it is handed to persistence and is a member from then on, of the
\* speculative set when its validity is False, of the confirmed set
\* otherwise.
Contains(cache, e) == e \in cache

Add(e) ==
    /\ handed' = handed (+) SetToBag({e})
    /\ SIGHTING_CACHE' = IF e.valid = "False" THEN SIGHTING_CACHE
                         ELSE SIGHTING_CACHE \cup {e}
    /\ MYSTERY_CACHE' = IF e.valid = "False" THEN MYSTERY_CACHE \cup {e}
                        ELSE MYSTERY_CACHE

IsNewAlways(e) == TRUE

IsNew(e) == ~Contains(SIGHTING_CACHE, e) /\ ~Contains(MYSTERY_CACHE, e)

IsNewLured(e) == ~Contains(SIGHTING_CACHE, e)

\* One wild sighting of the response, up to the await of notify.
Sighted(w) ==
    /\ feeds < MaxFed
    /\ fed[w].at = "done"
    /\ \E raw \in RawSightings, now \in RequestTimes, d \in DespawnTimes :
        LET asked == InvalidTth(raw.time_till_hidden_ms)
        IN  /\ asked \/ d = 0
            /\ fed' = [fed EXCEPT ![w] = [kind |-> "wild", raw |-> raw,
                                          now |-> now, d |-> d,
                                          at |-> "notify", new |-> FALSE,
                                          normalized |->
                                              Classify(raw, now, d),
                                          consulted |-> asked]]
    /\ feeds' = feeds + 1
    /\ UNCHANGED <<SIGHTING_CACHE, MYSTERY_CACHE, handed, clock, wvars, gvars,
                   rvars>>

\* notify returned: the sighting is counted and added if it is new.
Deduped(w) ==
    /\ fed[w].kind = "wild" /\ fed[w].at = "notify"
    /\ LET e == fed[w].normalized
           new == IsNew(e)
       IN  /\ fed' = [fed EXCEPT ![w].at = "done", ![w].new = new]
           /\ IF new
              THEN /\ Install([st EXCEPT !.own[w].account_seen = @ + 1])
                   /\ Add(e)
              ELSE UNCHANGED <<wvars, SIGHTING_CACHE, MYSTERY_CACHE, handed>>
    /\ UNCHANGED <<feeds, clock, gvars, rvars>>

\* One lured pokestop of the response: normalized, counted and added if
\* new, with no suspension in between.
Lured(w) ==
    /\ feeds < MaxFed
    /\ fed[w].at = "done"
    /\ \E raw \in RawForts, now \in RequestTimes :
        LET e == NormalizeLured(raw, now)
            new == IsNewLured(e)
        IN  /\ fed' = [fed EXCEPT ![w] = [kind |-> "lured", raw |-> raw,
                                          now |-> now, d |-> 0,
                                          at |-> "done", new |-> new,
                                          normalized |-> e,
                                          consulted |-> FALSE]]
            /\ IF new
               THEN /\ Install([st EXCEPT !.own[w].account_seen = @ + 1])
                    /\ Add(e)
               ELSE UNCHANGED <<wvars, SIGHTING_CACHE, MYSTERY_CACHE, handed>>
    /\ feeds' = feeds + 1
    /\ UNCHANGED <<clock, gvars, rvars>>

\* ------------------------------------------------------- specifications

\* Worker.__init__ for each Worker in turn: each takes the head of the
\* pool, which leaves it empty; initialize_api finds no stored token; the
\* module-level circuit table starts at zero.  The other identities reach
\* the pool later, from outside.
InitAccount == [w \in Workers |-> IF w = "w1" THEN 1 ELSE 2]

InitWith(b, fl, dead, cf, ages, clk) ==
    /\ account = InitAccount
    /\ extra_queue = << >>
    /\ outside = Accounts \ {1, 2}
    /\ captcha_queue = << >>
    /\ accounts = [a \in Accounts |-> NewRecord]
    /\ logged_in = [w \in Workers |-> FALSE]
    /\ ever_authenticated = [w \in Workers |-> FALSE]
    /\ has_provider = [w \in Workers |-> FALSE]
    /\ empty_visits = [w \in Workers |-> 0]
    /\ killed = [w \in Workers |-> w \in dead]
    /\ error_code = [w \in Workers |-> IF w \in dead THEN "KILLED" ELSE "INIT"]
    /\ proxy = [w \in Workers |-> "p1"]
    /\ g_captchas = 0
    /\ control_socks \in BOOLEAN
    /\ CIRCUIT_FAILURES = [p \in PROXIES |-> cf]
    /\ pc = [w \in Workers |-> "idle"]
    /\ cont = [w \in Workers |-> "fail"]
    /\ attempts = [w \in Workers |-> 0]
    /\ visited = [w \in Workers |-> FALSE]
    /\ budget = b
    /\ faults = fl
    /\ vpCalls = [w \in Workers |-> 0]
    /\ onlyBusy = [w \in Workers |-> TRUE]
    /\ cause = [w \in Workers |-> "none"]
    /\ startAcc = InitAccount
    /\ startLogged = [w \in Workers |-> FALSE]
    /\ deadRun = [w \in Workers |-> 0]
    /\ runSwaps = [w \in Workers |-> 0]
    /\ circuitLog = [w \in Workers |-> "none"]
    /\ startEmpty = [w \in Workers |-> 0]
    /\ swapped = [w \in Workers |-> FALSE]
    /\ resp = [w \in Workers |-> "none"]
    /\ account_start = [w \in Workers |-> "None"]
    /\ sims = [w \in Workers |-> 0]
    /\ persist = [w \in Workers |-> "saved"]
    /\ \E t \in ages : time_passed = [p \in PROXIES |-> t]
    /\ own = [w \in Workers |-> Loaded(NewOwn, NewRecord)]
    /\ clock = clk
    /\ SIGHTING_CACHE = {}
    /\ MYSTERY_CACHE = {}
    /\ handed = EmptyBag
    /\ fed = [w \in Workers |-> NotFed]
    /\ feeds = 0
    /\ locked = FALSE
    /\ waiters = << >>
    /\ fut = [t \in Tasks |-> "none"]
    /\ tpc = [t \in Tasks |-> "idle"]
    /\ mustCancel = [t \in Tasks |-> FALSE]
    /\ lastOp = [op |-> "none", task |-> "t1", ok |-> TRUE]
    /\ ops = 0
    /\ took = "none"
    /\ script = << >>
    /\ rpcPc = "idle"
    /\ inflight = Rpc("none", FALSE)
    /\ response = NoResponses
    /\ outcome = "none"
    /\ inventory_timestamp = 0
    /\ download_hash = 0
    /\ applied = FALSE

\* Two live Workers share the pool, built at startup.
Init == InitWith(MaxVisits, MaxFaults, {}, 0, {0}, 0)

\* One Worker walks alone: the other was killed before its first visit and
\* keeps its identity.  Enough failures for one visit to use up its passes.
\* The circuits are new.
InitRetry == InitWith(RetryVisits, RetryFaults, {"w2"}, 0, {0}, 0)

\* One Worker walks alone through a run of visits, at most one of which
\* meets a failure.
InitDead == InitWith(DeadVisits, DeadFaults, {"w2"}, 0, {0, MaxAge}, 0)

\* Two Workers constructed when the paths' failure counters, which belong
\* to the module and outlive the Workers that raised them, stand at the
\* limit; control sockets are configured, and one visit meets a failure.
InitCircuit ==
    InitWith(CircuitVisits, 1, {}, CircuitStart, {0}, 0) /\ control_socks

\* The steps of the Workers and of their Overseer.  No time passes that a
\* circuit's age would show: each circuit is as old as it was when the
\* Workers were built (new, or for a Worker built later past the limit),
\* until it is renewed.
\* NextCircuit adds the clock.
Next ==
    \/ PoolPut
    \/ \E w \in Workers :
        \/ StartVisit(w)
        \/ LoginAuth(w)
        \/ LoginSimulated(w)
        \/ MapFetched(w)
        \/ BackoffEnd(w)
        \/ SwapWake(w)
        \/ NewWake(w)
        \/ Kill(w)

Spec == Init /\ [][Next]_vars

NextGate ==
    \E t \in Tasks :
        \/ AcquireNow(t)
        \/ Acquire(t)
        \/ Resume(t)
        \/ Release(t)
        \/ Cancel(t)
        \/ ResumeCancelled(t)

SpecRetry == InitRetry /\ [][Next]_vars

SpecDead == InitDead /\ [][Next]_vars

SpecGate == Init /\ [][NextGate]_vars

\* The Workers of SpecCircuit are left alive by their Overseer.
NextCircuit ==
    \/ PoolPut
    \/ Tick
    \/ \E w \in Workers :
        \/ StartVisit(w)
        \/ LoginAuth(w)
        \/ LoginSimulated(w)
        \/ MapFetched(w)
        \/ BackoffEnd(w)
        \/ SwapWake(w)
        \/ NewWake(w)

SpecCircuit == InitCircuit /\ [][NextCircuit]_vars

NextChain ==
    \/ StartScript
    \/ SendRpc
    \/ RpcReturns

\* The requests of one Worker; the Workers' other state stays as built.
InitChain == Init /\ ~control_socks

SpecChain == InitChain /\ [][NextChain]_vars

\* Visits whose sightings are encountered.
NextEnc ==
    \/ PoolPut
    \/ \E w \in Workers :
        \/ StartVisit(w)
        \/ LoginAuth(w)
        \/ LoginSimulated(w)
        \/ MapFetched(w)
        \/ SightingFetched(w)
        \/ EncounterDone(w)
        \/ BackoffEnd(w)
        \/ SwapWake(w)
        \/ NewWake(w)
        \/ Kill(w)

SpecEnc == InitDead /\ [][NextEnc]_vars

\* What the event loop does for a suspended Worker sooner or later: the
\* sleep it waits in ends, or the request it waits for returns or raises.
Proceeds(w) ==
    \/ LoginAuth(w)
    \/ LoginSimulated(w)
    \/ MapFetched(w)
    \/ BackoffEnd(w)
    \/ SwapWake(w)
    \/ NewWake(w)

\* The Workers under an event loop that leaves no ready coroutine waiting;
\* nothing is assumed of the callers of visit and kill, nor of the pool.
SpecKill == Init /\ [][Next]_vars /\ \A w \in Workers : WF_vars(Proceeds(w))

\* One Worker whose identity is swapped from outside under its gate, while
\* other tasks use the gate, identities reach the pool and kill() may come.
NextLock ==
    \/ PoolPut
    \/ Kill(LockWorker)
    \/ SwapLocked(LockWorker)
    \/ LockedResume(LockWorker)
    \/ LockedWake(LockWorker)
    \/ \E t \in Tasks \ {LockTask} :
        \/ AcquireNow(t)
        \/ Acquire(t)
        \/ Resume(t)
        \/ Release(t)
        \/ Cancel(t)
        \/ ResumeCancelled(t)

SpecLock == Init /\ [][NextLock]_vars

\* Two Workers whose sessions write the time and the place of their
\* requests (clock 1), so that what an identity carries from one Worker to
\* the next differs from what a new record holds; a response with sightings
\* brings one that is new.
InitSwap == InitWith(SwapVisits, 1, {}, 0, {0}, 1)

NextSwap ==
    \/ PoolPut
    \/ \E w \in Workers :
        \/ StartVisit(w)
        \/ LoginAuth(w)
        \/ LoginSimulated(w)
        \/ MapFetched(w)
        \/ BackoffEnd(w)
        \/ SwapWake(w)
        \/ NewWake(w)

SpecSwap == InitSwap /\ [][NextSwap]_vars

\* The sightings of the Workers' map responses, in any interleaving.
NextSightings ==
    \E w \in Workers :
        \/ Sighted(w)
        \/ Deduped(w)
        \/ Lured(w)

SpecSightings == Init /\ [][NextSightings]_vars

\* ================================================================ claims

\* A step in which Worker w's visit classifies a failure of a kind in K:
\* cause is "none" while an attempt is in flight.
Classified(w, K) ==
    pc[w] \in {"login", "simulate", "gmo"} /\ cause'[w] \in K

\* A step in which Worker w's visit returns.
Returns(w) == pc[w] # "done" /\ pc'[w] = "done"

\* new_account took the head of the pool, another identity than the one held.
TookNew(w) ==
    /\ extra_queue # << >>
    /\ account'[w] = Head(extra_queue)
    /\ account'[w] # account[w]
    /\ extra_queue' = Tail(extra_queue)

\* swap_account put the held identity at the back of the pool and took the
\* head, another identity.
Swapped(w) ==
    /\ extra_queue # << >>
    /\ account'[w] = Head(extra_queue)
    /\ account'[w] # account[w]
    /\ extra_queue' = Append(Tail(extra_queue), account[w])

\* The Worker, killed, found the pool empty and kept its identity.
GaveUp(w) ==
    /\ extra_queue = << >>
    /\ killed[w]
    /\ account'[w] = account[w]
    /\ extra_queue' = extra_queue

NoFurtherAttempt(w) == vpCalls'[w] = vpCalls[w] /\ attempts'[w] = attempts[w]

\* ---------------------------------------------------------------- C1
\* C1, as stated: a visit whose every attempt fails with the remote
\* overloaded failure has called visit_point exactly 4 times when it
\* returns, returns False, and has not swapped the identity.
C1_VisitPointFourTimes ==
    \A w \in Workers :
        (pc[w] = "done" /\ onlyBusy[w] /\ cause[w] = "busy") =>
            /\ vpCalls[w] = MaxAttempts
            /\ ~visited[w]
            /\ account[w] = startAcc[w]

\* C1, amended: such a visit makes exactly 4 passes of its loop, never more
\* (and never more than 4 calls of visit_point), returns False, and has
\* neither swapped, benched nor removed the identity; visit_point is called
\* in each of the 4 passes when the Worker was logged in at entry (a pass
\* that fails inside login does not reach visit_point).
C1_RetryBudget ==
    \A w \in Workers :
        /\ attempts[w] <= MaxAttempts
        /\ vpCalls[w] <= MaxAttempts
        /\ (pc[w] = "done" /\ onlyBusy[w] /\ cause[w] = "busy") =>
              /\ attempts[w] = MaxAttempts
              /\ ~visited[w]
              /\ account[w] = startAcc[w]
              /\ account[w] \notin Range(extra_queue) \cup Range(captcha_queue)
              /\ ~accounts[account[w]].banned
              /\ ~accounts[account[w]].captcha
              /\ (startLogged[w] => vpCalls[w] = MaxAttempts)

C1_Witness ==
    \E w \in Workers :
        /\ pc[w] = "done" /\ onlyBusy[w] /\ cause[w] = "busy"
        /\ startLogged[w] /\ vpCalls[w] = MaxAttempts

\* ---------------------------------------------------------------- C2
\* A task suspended in acquire() and still waiting for the gate: its future
\* is pending, or set by release() and the task not yet resumed.  (A task
\* whose wait was cancelled no longer waits for the gate.)
Suspended(t) == tpc[t] = "waiting" /\ fut[t] # "cancelled"

\* C2: acquire_now succeeds, marking the gate held, exactly when the gate
\* is free and no task is suspended waiting in acquire(); otherwise it
\* returns False and changes neither the held flag nor the waiter queue.
C2_TakeoverGuard ==
    [][\A t \in Tasks :
         (ops' = ops + 1 /\ lastOp'.task = t) =>
            IF ~locked /\ ~\E u \in Tasks : Suspended(u)
            THEN /\ lastOp'.ok
                 /\ locked'
                 /\ tpc'[t] = "holding"
                 /\ waiters' = waiters /\ fut' = fut
            ELSE /\ ~lastOp'.ok
                 /\ locked' = locked
                 /\ waiters' = waiters /\ fut' = fut /\ tpc' = tpc]_vars

\* A takeover refused although the gate is free: release() has woken a
\* waiter that has not resumed yet.
C2_Witness ==
    /\ lastOp.op = "acquire_now" /\ ~lastOp.ok
    /\ ~locked
    /\ \E u \in Tasks : tpc[u] = "waiting" /\ fut[u] = "done"

\* ---------------------------------------------------------------- C3
Holders == {t \in Tasks : tpc[t] = "holding"}

\* C3: at most one task holds the gate, the gate is marked held while one
\* does, and while a task woken by release() has not resumed nobody holds
\* the gate (so a takeover cannot slip in before it).
C3_MutualExclusion ==
    /\ Cardinality(Holders) <= 1
    /\ Holders # {} => locked
    /\ \A u \in Tasks : fut[u] = "done" => Holders = {}

\* A takeover that succeeded past a cancelled waiter still in the queue,
\* with another task then queued behind the holder.
C3_Witness ==
    /\ lastOp.op = "acquire" /\ locked
    /\ \E h \in Holders, u, v \in Tasks :
          /\ tpc[u] = "waiting" /\ fut[u] = "cancelled"
          /\ tpc[v] = "waiting" /\ fut[v] = "pending"
          /\ ops > 0

\* ---------------------------------------------------------------- C4
\* C4: every identity is held by at most one Worker, and no identity a
\* Worker holds is in the available pool or in the benched queue.
C4_IdentityExclusive ==
    /\ \A v, w \in Workers : account[v] = account[w] => v = w
    /\ \A w \in Workers :
          account[w] \notin Range(extra_queue) \cup Range(captcha_queue)

\* ---------------------------------------------------------------- C5
\* What C5 says of the step that classifies AccountBanned: the record is
\* written with banned set, the identity does not go to the pool, and no
\* further attempt follows.
BannedHandled(w) ==
    /\ Classified(w, {"banned"}) =>
          /\ accounts'[account[w]].banned
          /\ account[w] \notin Range(extra_queue')
          /\ captcha_queue' = captcha_queue
          /\ pc'[w] \in {"done", "new_account_sleep"}
    /\ (pc[w] = "new_account_sleep" /\ cause[w] = "banned"
        /\ pc'[w] # pc[w]) => pc'[w] = "done"

\* C5, as stated: the visit that classified AccountBanned returns False
\* having taken a new identity from the pool.
C5_BannedTakesNew ==
    [][\A w \in Workers :
         /\ BannedHandled(w)
         /\ (Returns(w) /\ cause'[w] = "banned") =>
               /\ TookNew(w)
               /\ ~visited'[w]
               /\ NoFurtherAttempt(w)]_vars

\* C5, amended: ... having taken a new identity from the pool, or, when
\* the Worker is killed and the pool empty, having kept the banned one and
\* taken none.
C5_Banned ==
    [][\A w \in Workers :
         /\ BannedHandled(w)
         /\ (Returns(w) /\ cause'[w] = "banned") =>
               /\ TookNew(w) \/ GaveUp(w)
               /\ account[w] \notin Range(extra_queue')
               /\ ~visited'[w]
               /\ NoFurtherAttempt(w)]_vars

C5_Witness ==
    \E w \in Workers :
        /\ pc[w] = "done" /\ cause[w] = "banned" /\ ~visited[w]
        /\ account[w] # startAcc[w]
        /\ accounts[startAcc[w]].banned

\* ---------------------------------------------------------------- C6
ChallengeHandled(w) ==
    /\ Classified(w, {"captcha"}) =>
          /\ accounts'[account[w]].captcha
          /\ captcha_queue' = Append(captcha_queue, account[w])
          /\ account[w] \notin Range(extra_queue')
          /\ pc'[w] \in {"done", "new_account_sleep"}
    /\ (pc[w] = "new_account_sleep" /\ cause[w] = "captcha"
        /\ pc'[w] # pc[w]) => pc'[w] = "done"

\* C6, as stated: the visit that classified ChallengeRequired flags and
\* benches the identity, takes a new one, counts one captcha and returns
\* False with no further attempt.
C6_ChallengeTakesNew ==
    [][\A w \in Workers :
         /\ ChallengeHandled(w)
         /\ (Returns(w) /\ cause'[w] = "captcha") =>
               /\ TookNew(w)
               /\ g_captchas' = g_captchas + 1
               /\ ~visited'[w]
               /\ NoFurtherAttempt(w)]_vars

\* C6, amended: ... takes a new one, or, when the Worker is killed and the
\* pool empty, keeps the benched one and takes none ...
C6_Challenge ==
    [][\A w \in Workers :
         /\ ChallengeHandled(w)
         /\ (Returns(w) /\ cause'[w] = "captcha") =>
               /\ TookNew(w) \/ GaveUp(w)
               /\ account[w] \notin Range(extra_queue')
               /\ g_captchas' = g_captchas + 1
               /\ ~visited'[w]
               /\ NoFurtherAttempt(w)]_vars

C6_Witness ==
    \E w \in Workers :
        /\ pc[w] = "done" /\ cause[w] = "captcha" /\ ~visited[w]
        /\ account[w] # startAcc[w]
        /\ startAcc[w] \in Range(captcha_queue)
        /\ accounts[startAcc[w]].captcha
        /\ g_captchas = 1

\* ---------------------------------------------------------------- C7
SessionHandled(w) ==
    /\ Classified(w, SessionLevel) =>
          /\ pc'[w] \in {"done", "swap_account_sleep"}
          /\ NoFurtherAttempt(w)
    /\ (pc[w] = "swap_account_sleep" /\ cause[w] \in SessionLevel
        /\ pc'[w] # pc[w]) => pc'[w] = "done"

\* C7, as stated: the visit that classified AuthException or
\* NotLoggedInException returns False having put its identity back in the
\* pool and taken a different one, with no further attempt.
C7_SessionSwaps ==
    [][\A w \in Workers :
         /\ SessionHandled(w)
         /\ (Returns(w) /\ cause'[w] \in SessionLevel) =>
               /\ Swapped(w)
               /\ ~visited'[w]
               /\ NoFurtherAttempt(w)]_vars

\* C7, amended: ... or, when the Worker is killed and the pool empty,
\* having kept its identity and left the pool as it was.
C7_Session ==
    [][\A w \in Workers :
         /\ SessionHandled(w)
         /\ (Returns(w) /\ cause'[w] \in SessionLevel) =>
               /\ Swapped(w) \/ GaveUp(w)
               /\ ~visited'[w]
               /\ NoFurtherAttempt(w)]_vars

C7_Witness ==
    \E w \in Workers :
        /\ pc[w] = "done" /\ cause[w] \in SessionLevel /\ ~visited[w]
        /\ account[w] # startAcc[w]
        /\ startAcc[w] \in Range(extra_queue)

\* ---------------------------------------------------------------- C8
\* C8: a recoverable failure in pass 1, 2 or 3 leaves the identity, the
\* pool, the benched queue and the records alone and sends the Worker to
\* its backoff (for an egress ban, after swap_circuit was called); when
\* the backoff ends the next pass starts with the same identity.
C8_RecoverableRetries ==
    [][\A w \in Workers :
         /\ (Classified(w, Recoverable) /\ attempts[w] < MaxAttempts - 1) =>
               /\ pc'[w] = "backoff"
               /\ account'[w] = account[w]
               /\ extra_queue' = extra_queue
               /\ captcha_queue' = captcha_queue
               /\ accounts' = accounts
               /\ cause'[w] = "ip" <=> circuitLog'[w] # "none"
         /\ (pc[w] = "backoff" /\ cause[w] \in Recoverable
             /\ attempts[w] < MaxAttempts - 1 /\ pc'[w] # "backoff") =>
               /\ pc'[w] \in {"login", "gmo"}
               /\ attempts'[w] = attempts[w] + 1
               /\ account'[w] = account[w]
               /\ extra_queue' = extra_queue
               /\ captcha_queue' = captcha_queue]_vars

\* The fourth pass in flight after three recoverable failures, one of them
\* an egress ban, with the identity the visit began with.
C8_Witness ==
    \E w \in Workers :
        /\ pc[w] = "gmo" /\ attempts[w] = MaxAttempts - 1
        /\ faults <= RetryFaults - 3
        /\ account[w] = startAcc[w]

\* ---------------------------------------------------------------- C9
\* C9: an unclassified failure makes visit return False in the same step,
\* with no further attempt, and leaves the identity, the pool, the benched
\* queue, the records and the egress path unchanged.
C9_UnclassifiedFrame ==
    [][\A w \in Workers :
         Classified(w, {"other"}) =>
            /\ pc'[w] = "done"
            /\ ~visited'[w]
            /\ NoFurtherAttempt(w)
            /\ account' = account
            /\ extra_queue' = extra_queue
            /\ captcha_queue' = captcha_queue
            /\ accounts' = accounts
            /\ proxy' = proxy]_vars

C9_Witness ==
    \E w \in Workers :
        /\ pc[w] = "done" /\ cause[w] = "other" /\ ~visited[w]
        /\ error_code[w] = "EXCEPTION"
        /\ account[w] = startAcc[w]

\* ---------------------------------------------------------------- C10
\* C10, as stated: three consecutive visits that each found no sighting
\* and no fort have triggered exactly one identity swap in total.
C10_OneSwapInThree ==
    \A w \in Workers :
        (pc[w] = "done" /\ deadRun[w] = 3) => runSwaps[w] = 1

\* C10, amended: each such visit triggers an identity swap on that very
\* visit (n consecutive ones have triggered n, three have triggered three;
\* a Worker killed while waiting on the empty pool may call swap_account a
\* second time in its last visit), and the empty-visit counter is zero
\* after each swap that took a new identity.
C10_SwapEachDeadVisit ==
    \A w \in Workers :
        (pc[w] = "done" /\ deadRun[w] >= 1) =>
            /\ runSwaps[w] >= deadRun[w]
            /\ runSwaps[w] <= deadRun[w] + 1
            /\ ~killed[w] => runSwaps[w] = deadRun[w]
            /\ account[w] # startAcc[w] => empty_visits[w] = 0
            /\ visited[w]

C10_Witness ==
    \E w \in Workers :
        /\ pc[w] = "done" /\ deadRun[w] = 3 /\ runSwaps[w] = 3
        /\ empty_visits[w] = 0 /\ account[w] # startAcc[w]

\* ---------------------------------------------------------------- C11
\* C11: the step in which visit_point processes a response of success
\* status with no sighting and no enabled fort calls swap_account, whatever
\* the empty-visit counter was: the Worker swaps at once, or waits for the
\* pool, or (killed, pool empty) gives up.
C11_DeadZoneSwapsAtOnce ==
    [][\A w \in Workers :
         (pc[w] = "gmo" /\ resp'[w] = "dead") =>
            /\ swapped'[w]
            /\ empty_visits[w] = startEmpty[w]
            /\ \/ pc'[w] = "swap_account_sleep" /\ cont'[w] = "dead"
               \/ Swapped(w) /\ empty_visits'[w] = 0
               \/ GaveUp(w)]_vars

\* A dead-zone visit that began with the counter above zero and swapped.
C11_Witness ==
    \E w \in Workers :
        /\ pc[w] = "done" /\ resp[w] = "dead" /\ swapped[w]
        /\ startEmpty[w] >= 1
        /\ account[w] # startAcc[w]

\* ---------------------------------------------------------------- C12
\* C12: a visit that processed a non-success status, or success with no
\* sighting but some fort, called swap_account exactly if the counter was
\* already at 2 when the visit began (so, from 0: not on the first nor the
\* second such visit, and on the third); without a swap the counter is one
\* more than before and the identity the same.
C12_ThirdEmptyVisitSwaps ==
    \A w \in Workers :
        (/\ pc[w] \in {"done", "swap_account_sleep", "new_account_sleep"}
         /\ resp[w] \in {"status", "forts"}) =>
            /\ swapped[w] <=> startEmpty[w] >= EmptyLimit
            /\ ~swapped[w] =>
                  /\ empty_visits[w] = startEmpty[w] + 1
                  /\ account[w] = startAcc[w]
                  /\ pc[w] = "done"
            /\ startEmpty[w] <= EmptyLimit

\* The third such visit in a row has swapped the identity.
C12_Witness ==
    \E w \in Workers :
        /\ pc[w] = "done" /\ resp[w] \in {"status", "forts"}
        /\ startEmpty[w] = EmptyLimit /\ swapped[w]
        /\ account[w] # startAcc[w] /\ empty_visits[w] = 0
        /\ budget = DeadVisits - 3 /\ faults = DeadFaults

BackoffStatus ==
    [ip |-> "IP BANNED", busy |-> "RETRYING", throttle |-> "THROTTLE",
     malformed |-> "MALFORMED RESPONSE"]

\* C16: at every suspension point of a recovery the status is a
\* non-healthy code: the failure's own token during a backoff (after the
\* circuit rotation, for an egress ban), the token of the swap, removal or
\* benching while the Worker waits for an identity, and EXCEPTION after an
\* unclassified failure; or KILLED if the Worker was killed meanwhile.
\* Never the healthy empty code.
C16_StatusDuringRecovery ==
    \A w \in Workers :
        /\ (pc[w] = "backoff" /\ cause[w] \in Recoverable) =>
              error_code[w] \in {BackoffStatus[cause[w]], "KILLED"}
        /\ (pc[w] = "swap_account_sleep" /\ cause[w] \in SessionLevel) =>
              error_code[w] \in {"SWAPPING", "KILLED"}
        /\ (pc[w] = "new_account_sleep" /\ cause[w] = "banned") =>
              error_code[w] \in {"REMOVING", "KILLED"}
        /\ (pc[w] = "new_account_sleep" /\ cause[w] = "captcha") =>
              error_code[w] \in {"BENCHING", "KILLED"}
        /\ (pc[w] = "done" /\ cause[w] = "other") =>
              error_code[w] \in {"EXCEPTION", "KILLED"}
        /\ (pc[w] \in {"backoff", "swap_account_sleep", "new_account_sleep"}
            /\ cause[w] \in Failures) => error_code[w] # "None"

\* A Worker backing off after an egress ban whose rotation was carried out,
\* showing the ban's token.
C16_Witness ==
    \E w \in Workers :
        /\ pc[w] = "backoff" /\ cause[w] = "ip"
        /\ circuitLog[w] # "none"
        /\ error_code[w] = "IP BANNED"

\* ---------------------------------------------------------------- C15
\* C15: the step in which kill() runs leaves the Worker's identity state
\* written to the pool record, whether or not the Worker ever
\* authenticated, and no identity leaves a Worker with unwritten state.
C15_PersistedOnSwapAndKill ==
    [][\A w \in Workers :
         /\ (~killed[w] /\ killed'[w]) => persist'[w] = "saved"
         /\ persist'[w] # "lost"]_vars

\* ---------------------------------------------------------------- C17
\* C17: a Worker that is logged in has its session-start timestamp set in
\* the present tenure of its identity; a visit begun logged in never
\* authenticates nor simulates; a visit begun logged out is in login until
\* the simulation has completed; and at most one simulation completes per
\* tenure.
C17_LoginStateMachine ==
    \A w \in Workers :
        /\ logged_in[w] => account_start[w] = "set"
        /\ (startLogged[w] /\ startAcc[w] = account[w]) =>
              pc[w] \notin {"login", "simulate"}
        /\ pc[w] \in {"login", "simulate"} =>
              ~logged_in[w] /\ ~ever_authenticated[w]
        /\ sims[w] <= 1
        /\ logged_in[w] => ever_authenticated[w]

\* ---------------------------------------------------------------- C14
\* The step in which Worker w's visit_point, having seen no sighting,
\* reaches the circuit accounting of lines 614-619 and returns.
ZeroSightingStep(w) ==
    /\ pc[w] # "done" /\ pc'[w] = "done" /\ visited'[w]
    /\ resp'[w] \in {"forts", "dead"}

\* The step in which Worker w's visit_point processes sightings.
SightingStep(w) == pc[w] = "gmo" /\ resp'[w] = "sight"

\* A step that renews the circuit of path p.
Renewed(p) == time_passed'[p] < time_passed[p]

\* C14: with circuit control, for Workers sharing a path in any
\* interleaving: a circuit is renewed only when more than 180 s have
\* passed since the path's last renewal or since startup, and the renewal
\* resets the path's failure counter; a visit without sightings adds one to
\* the counter and asks for a renewal exactly if the counter then exceeds
\* 20; a renewal asked for too early is skipped and leaves the counter as
\* it is; nothing else raises the counter.
C14_CircuitRotation ==
    [][\A p \in PROXIES : control_socks =>
         /\ Renewed(p) =>
               /\ time_passed[p] > RotateAfter
               /\ time_passed'[p] = 0
               /\ CIRCUIT_FAILURES'[p] = 0
         /\ \A w \in Workers :
               (proxy[w] = p /\ ZeroSightingStep(w)) =>
                  LET n == CIRCUIT_FAILURES[p] + 1
                  IN  IF n > CircuitLimit
                      THEN IF time_passed[p] > RotateAfter
                           THEN /\ Renewed(p)
                                /\ circuitLog'[w] = "changed"
                           ELSE /\ ~Renewed(p)
                                /\ CIRCUIT_FAILURES'[p] = n
                                /\ circuitLog'[w] = "skipped"
                      ELSE /\ ~Renewed(p)
                           /\ CIRCUIT_FAILURES'[p] = n
                           /\ circuitLog'[w] = "none"
         /\ CIRCUIT_FAILURES'[p] > CIRCUIT_FAILURES[p] =>
               \E w \in Workers : proxy[w] = p /\ ZeroSightingStep(w)
         /\ CIRCUIT_FAILURES'[p] < CIRCUIT_FAILURES[p] =>
               \/ Renewed(p)
               \/ \E w \in Workers : proxy[w] = p /\ SightingStep(w)]_vars

\* Two Workers on one path: the visit of one pushed the counter past the
\* limit too early for a renewal, time passed, and the visit of the other
\* renewed the circuit and reset the counter.
C14_Witness ==
    \E w, v \in Workers :
        /\ w # v /\ proxy[w] = proxy[v]
        /\ pc[w] = "done" /\ visited[w] /\ resp[w] \in {"forts", "dead"}
        /\ circuitLog[w] = "changed"
        /\ resp[v] \in {"forts", "dead"} /\ circuitLog[v] = "skipped"
        /\ CIRCUIT_FAILURES[proxy[w]] = 0 /\ time_passed[proxy[w]] = 0

\* ---------------------------------------------------------------- C20
\* C20 as stated: whenever the encounter of a sighting ends, whichever
\* caller invoked it and whether or not it failed, the visit goes on to the
\* rest of the response and returns True, and no failure reaches the
\* except clauses of visit.
C20_EncounterNonFatal ==
    [][\A w \in Workers :
         (pc[w] \in EncounterPcs /\ pc'[w] # pc[w]) =>
            /\ pc'[w] = "done" /\ visited'[w]
            /\ cause'[w] = "none"
            /\ faults' < faults => error_code'[w] = ":"]_vars

\* ---------------------------------------------------------------- C18
\* A request submitted through call_chain has returned.
ChainReturned == rpcPc = "idle" /\ inflight.chained /\ outcome # "none"

\* The CHECK_CHALLENGE payload of the response carries a challenge URL,
\* and one that is not the empty string.
NonEmptyUrl ==
    /\ response.well /\ response.challenge.payload = "dict"
    /\ response.challenge.has_url /\ response.challenge.url # ""

\* C18 as stated: call_chain ends in the challenge failure exactly if the
\* challenge-check payload of the response carries a non-empty challenge
\* URL.
C18_ChallengeIffNonEmptyUrl ==
    ChainReturned => (outcome = "captcha" <=> NonEmptyUrl)

\* C18, amended: call_chain ends in the challenge failure exactly if the
\* outer status code is not the banned one, the response is well formed,
\* and its challenge-check payload carries a challenge URL other than the
\* one-space placeholder; the empty string is such a URL.  With the payload
\* or the URL absent, or the URL the placeholder, it does not; with the
\* banned status code it ends in the banned failure whatever the URL.
C18_ChallengeUnlessPlaceholder ==
    ChainReturned =>
        /\ outcome = "captcha" <=>
              /\ response.status_code # BannedStatus
              /\ response.well
              /\ response.challenge.payload = "dict"
              /\ response.challenge.has_url
              /\ response.challenge.url \in {"", "http://c"}
        /\ response.status_code = BannedStatus => outcome = "banned"

\* A response whose challenge URL is the empty string ended call_chain in
\* the challenge failure.
C18_Witness ==
    /\ ChainReturned /\ outcome = "captcha"
    /\ response.challenge.has_url /\ response.challenge.url = ""
    /\ inflight.op = "get_map_objects"

\* ---------------------------------------------------------------- C19
\* A request that carries an operation has returned.
PrimaryReturned == rpcPc = "idle" /\ outcome # "none" /\ inflight.op # "none"

\* C19 as stated: every request that carries an operation is submitted
\* through call_chain, whose bookkeeping has been applied when the request
\* has returned.
C19_EveryRpcChained ==
    /\ (rpcPc = "call" /\ inflight.op # "none") => inflight.chained
    /\ PrimaryReturned => applied

\* C19, amended: every request that carries an operation is submitted
\* through call_chain, and last_request is set when it returns, except the
\* first get_player of the session simulation (the one followed by
\* download_remote_config_version): it is sent bare, last_request and the
\* inventory and settings-hash state are left as they were, and it fails
\* only on the banned flag of its own payload or on a response that is no
\* mapping.
C19_ChainedButFirstGetPlayer ==
    /\ (rpcPc = "call" /\ inflight.op # "none" /\ ~inflight.chained) =>
          /\ inflight.op = "get_player"
          /\ Head(script).op = "download_remote_config_version"
    /\ PrimaryReturned =>
          IF inflight.chained
          THEN /\ applied
               /\ outcome = CallChainOutcome(response)
          ELSE /\ inflight.op = "get_player"
               /\ ~applied
               /\ outcome \in {"ok", "banned", "other"}
               /\ outcome = "banned" <=> (response.well /\ response.banned)
               /\ outcome = "ok" =>
                     Head(script).op = "download_remote_config_version"

\* The first get_player of a simulation returned a response that carries a
\* new inventory timestamp, and nothing of it was kept.
C19_Witness ==
    /\ PrimaryReturned /\ ~inflight.chained /\ outcome = "ok"
    /\ response.stamp # 0 /\ inventory_timestamp = 0 /\ ~applied


\* C21: a wild sighting whose time_till_hidden_ms lies in 0..90000 is valid,
\* expires at the second nearest to request time plus the reported value,
\* and the estimator is not asked; outside that range the estimator is asked
\* and alone decides: a despawn time it finds becomes the expiry and gives
\* the remaining time, and with none found the sighting is invalid.
InRange(w) ==
    /\ fed[w].raw.time_till_hidden_ms >= 0
    /\ fed[w].raw.time_till_hidden_ms <= 90000

NearestSecond(ms, sec) ==
    LET off == sec * 1000 - ms
    IN  /\ off >= 0 - 500 /\ off <= 500
        /\ (off = 500 \/ off = 0 - 500) => sec % 2 = 0

C21_SightingValidity ==
    \A w \in Workers :
        fed[w].kind = "wild" =>
            LET n == fed[w].normalized
                r == fed[w].raw
            IN  /\ n.encounter_id = r.encounter_id
                /\ InRange(w) =>
                    /\ n.valid = "True"
                    /\ ~fed[w].consulted
                    /\ n.time_till_hidden_ms = r.time_till_hidden_ms
                    /\ NearestSecond(fed[w].now + r.time_till_hidden_ms,
                                     n.expire_timestamp)
                /\ ~InRange(w) =>
                    /\ fed[w].consulted
                    /\ fed[w].d # 0 =>
                        /\ n.valid = "fixed"
                        /\ n.expire_timestamp = fed[w].d
                        /\ n.time_till_hidden_ms
                               = fed[w].d * 1000 - fed[w].now
                    /\ fed[w].d = 0 => n.valid = "False"

C21_Witness ==
    /\ fed["w1"].kind = "wild" /\ InRange("w1")
    /\ fed["w1"].raw.time_till_hidden_ms = 90000
    /\ fed["w2"].kind = "wild" /\ ~InRange("w2")
    /\ fed["w2"].normalized.valid = "fixed"
    /\ fed["w2"].at = "done" /\ fed["w2"].new


Returned(w) == pc[w] \in {"idle", "done"}

C23_KilledReturns == \A w \in Workers : killed[w] ~> Returned(w)

C23_KilledReturnsPersisted ==
    \A w \in Workers : killed[w] /\ Returned(w) => persist[w] = "saved"


\* C24: in every reachable state the client of a Worker that has an egress
\* path is set to send through that path.
C24_ClientUsesEgressPath ==
    \A w \in Workers : proxy[w] \in PROXIES => own[w].api_proxy = proxy[w]


\* C25: a task obtains the gate only when every task queued ahead of it in
\* acquire (for a task that did not queue: every queued task) has had its
\* wait cancelled; and each release, whether the gate was got by acquire or
\* by acquire_now, leaves the gate free and the oldest waiter that was
\* still pending woken.
Obtains(t) == tpc[t] # "holding" /\ tpc'[t] = "holding"

Releases(t) == tpc[t] = "holding" /\ tpc'[t] = "idle"

Ahead(t) ==
    IF \E i \in 1..Len(waiters) : waiters[i] = t
    THEN {waiters[i] : i \in {j \in 1..Len(waiters) :
                                 \E k \in j + 1..Len(waiters) :
                                     waiters[k] = t}}
    ELSE Range(waiters)

Pending == {u \in Range(waiters) : fut[u] = "pending"}

C25_GateFifo ==
    [][\A t \in Tasks :
         /\ Obtains(t) => \A u \in Ahead(t) : fut[u] = "cancelled"
         /\ Releases(t) =>
              /\ ~locked'
              /\ \A u \in Pending :
                    fut'[u] = "done" <=> Ahead(u) \cap Pending = {}]_vars

\* A gate taken by acquire_now has been released while two tasks waited,
\* and the older of them is the one woken.
C25_Witness ==
    /\ took = "acquire_now" /\ lastOp.op = "release" /\ ~locked
    /\ Len(waiters) = 2
    /\ fut[waiters[1]] = "done" /\ fut[waiters[2]] = "pending"


\* C26: when a call of swap_account(lock=True) has returned, the task that
\* made it does not hold the Worker's gate, by whichever path it returned.
C26_SwapLeavesGateFree ==
    own[LockWorker].lpc \in {"killed", "released"}
        => tpc[LockTask] # "holding"


\* C27: no step in which a Worker keeps its identity clears a banned or
\* challenged flag recorded for that identity.
C27_FlagsSticky ==
    [][\A w \in Workers :
         account'[w] = account[w] =>
            /\ accounts[account[w]].banned => accounts'[account[w]].banned
            /\ accounts[account[w]].captcha
                  => accounts'[account[w]].captcha]_vars


\* C28: a step in which a Worker's identity is replaced ends with the
\* empty-visit and the per-session seen counters at 0, with position,
\* last-request, last-action and last-map-fetch times and inventory as the
\* record of the new identity held them, and logged out unless that record
\* carries a token; the cumulative seen-count is as before, and the visit
\* count is as before but for the visit itself, if it goes on to count.
SwappedIn(w) == account'[w] # account[w]

C28_ResetOnSwap ==
    [][\A w \in Workers :
         SwappedIn(w) =>
            LET rec == accounts[account'[w]]
            IN  /\ empty_visits'[w] = 0
                /\ own'[w].account_seen = 0
                /\ own'[w].location = rec.location
                /\ own'[w].last_request = rec.time
                /\ own'[w].last_action = rec.time
                /\ own'[w].last_gmo = rec.time
                /\ own'[w].inventory_timestamp = rec.inventory_timestamp
                /\ own'[w].items = rec.items
                /\ logged_in'[w] = ever_authenticated'[w]
                /\ logged_in'[w] => rec.refresh
                /\ own'[w].total_seen = own[w].total_seen
                /\ own'[w].visits = own[w].visits
                      + (IF pc'[w] = "done" /\ visited'[w] THEN 1 ELSE 0)]_vars

\* A Worker that had seen and visited took over, in its last step, an
\* identity that another session had written, and starts from its record.
C28_Witness ==
    \E w \in Workers :
        /\ swapped[w] /\ pc[w] = "done" /\ account[w] # startAcc[w]
        /\ own[w].total_seen > 0 /\ own[w].visits > 0
        /\ own[w].account_seen = 0 /\ empty_visits[w] = 0
        /\ own[w].last_gmo = 1 /\ own[w].location = 1
        /\ accounts[startAcc[w]].time = 1

====
